---- MODULE Spec2Model ----
(***************************************************************************)
(* Model of the "New Java Project" extension (src/src/extension.ts):       *)
(* the two descriptor builders, the folder provisioner createProjectFolder *)
(* and the command handler, running on a single-threaded event loop over a *)
(* filesystem.                                                             *)
(*                                                                         *)
(* A JavaScript string is a sequence of atoms: an atom is either a run of  *)
(* ordinary characters or one XML-reserved character.  Str flattens a      *)
(* sequence of atoms to the text it stands for.                            *)
(***************************************************************************)
EXTENDS Integers, Sequences, FiniteSets, TLC

VARIABLES fs, fs0, inv, cmd, running, shown

vars == <<fs, fs0, inv, cmd, running, shown>>

(***************************************************************************)
(* Bounds of the model.                                                    *)
(***************************************************************************)
NumInvocations == 2

NumCommands == 1

(***************************************************************************)
(* Strings.                                                                *)
(***************************************************************************)
RECURSIVE Str(_)
Str(t) == IF t = <<>> THEN "" ELSE Head(t) \o Str(Tail(t))

Reserved == {"&", "<", ">", "\""}

NoReserved(t) == \A k \in 1..Len(t) : t[k] \notin Reserved

\* Element text as the serializer escapes it.
ElEscapeAtom(a) ==
  CASE a = "&" -> "&amp;"
    [] a = "<" -> "&lt;"
    [] a = ">" -> "&gt;"
    [] OTHER -> a

ElEscape(t) == [k \in 1..Len(t) |-> ElEscapeAtom(t[k])]

\* An attribute value as the serializer escapes it.
AttEscapeAtom(a) ==
  CASE a = "&" -> "&amp;"
    [] a = "<" -> "&lt;"
    [] a = "\"" -> "&quot;"
    [] OTHER -> a

AttEscape(t) == [k \in 1..Len(t) |-> AttEscapeAtom(t[k])]

(***************************************************************************)
(* XML documents as xmlbuilder holds them: an element has a tag, ordered   *)
(* attributes, and either ordered child elements or one text child.        *)
(***************************************************************************)
Ele(tag, atts, kids) ==
  [tag |-> tag, atts |-> atts, hasText |-> FALSE, text |-> <<>>, kids |-> kids]

TextEle(tag, text) ==
  [tag |-> tag, atts |-> <<>>, hasText |-> TRUE, text |-> text, kids |-> <<>>]

Att(name, value) == [name |-> name, value |-> value]

\* A value of an object literal handed to xmlbuilder.create: a string or a
\* nested object, an object being the ordered list of its key/value pairs.
StrVal(t) == [isObj |-> FALSE, str |-> t, props |-> <<>>]

ObjVal(props) == [isObj |-> TRUE, str |-> <<>>, props |-> props]

Prop(key, val) == [key |-> key, val |-> val]

\* xmlbuilder's conversion of one key/value pair to an element: a string
\* becomes the element's text, an object its child elements in key order.
RECURSIVE FromProp(_)
FromProp(p) ==
  IF p.val.isObj
    THEN Ele(p.key, <<>>, [k \in 1..Len(p.val.props) |-> FromProp(p.val.props[k])])
    ELSE TextEle(p.key, p.val.str)

Indent(level) == Str([k \in 1..level |-> "  "])

RECURSIVE WriteAtts(_)
WriteAtts(atts) ==
  IF atts = <<>> THEN ""
  ELSE " " \o Head(atts).name \o "=\"" \o Str(AttEscape(Head(atts).value)) \o "\""
       \o WriteAtts(Tail(atts))

RECURSIVE JoinLines(_)
JoinLines(ls) ==
  IF ls = <<>> THEN ""
  ELSE IF Len(ls) = 1 THEN ls[1]
  ELSE Head(ls) \o "\n" \o JoinLines(Tail(ls))

\* The pretty writer: two spaces per level, an element without content is
\* written <tag/>, a text-only element on one line.
RECURSIVE WriteEle(_, _)
WriteEle(e, level) ==
  LET open == Indent(level) \o "<" \o e.tag \o WriteAtts(e.atts)
  IN  IF e.kids = <<>> /\ (~e.hasText \/ Str(e.text) = "")
        THEN open \o "/>"
      ELSE IF e.kids = <<>>
        THEN open \o ">" \o Str(ElEscape(e.text)) \o "</" \o e.tag \o ">"
      ELSE open \o ">\n"
           \o JoinLines([k \in 1..Len(e.kids) |-> WriteEle(e.kids[k], level + 1)])
           \o "\n" \o Indent(level) \o "</" \o e.tag \o ">"

XmlDecl == "<?xml version=\"1.0\" encoding=\"UTF-8\"?>"

\* xml.end({pretty: true}): the declaration, the root, no trailing newline.
End(root) == XmlDecl \o "\n" \o WriteEle(root, 0)

(***************************************************************************)
(* The descriptor builders.                                                *)
(***************************************************************************)
\* A variant of projectObj with the keys comment and name exchanged.
projectObjCommentFirst(projectName) ==
  Prop("projectDescription", ObjVal(<<
    Prop("comment", StrVal(<<>>)),
    Prop("name", StrVal(projectName)),
    Prop("projects", ObjVal(<<>>)),
    Prop("buildSpec", ObjVal(<<
      Prop("buildCommand", ObjVal(<<
        Prop("name", StrVal(<<"org.eclipse.jdt.core.javabuilder">>)),
        Prop("arguments", ObjVal(<<>>)) >>)) >>)),
    Prop("natures", ObjVal(<<
      Prop("nature", StrVal(<<"org.eclipse.jdt.core.javanature">>)) >>)) >>))

projectObj(projectName) ==
  Prop("projectDescription", ObjVal(<<
    Prop("name", StrVal(projectName)),
    Prop("comment", StrVal(<<>>)),
    Prop("projects", ObjVal(<<>>)),
    Prop("buildSpec", ObjVal(<<
      Prop("buildCommand", ObjVal(<<
        Prop("name", StrVal(<<"org.eclipse.jdt.core.javabuilder">>)),
        Prop("arguments", ObjVal(<<>>)) >>)) >>)),
    Prop("natures", ObjVal(<<
      Prop("nature", StrVal(<<"org.eclipse.jdt.core.javanature">>)) >>)) >>))

projectDoc(projectName) == FromProp(projectObj(projectName))

createProjectFile(projectName) == End(projectDoc(projectName))

JreContainer ==
  "org.eclipse.jdt.launching.JRE_CONTAINER/org.eclipse.jdt.internal.debug.ui.launcher.StandardVMType/"

\* A variant of classPathDoc that adds the output entry before the src entry.
classPathDocOutputFirst(javaVersion) ==
  Ele("classpath", <<>>, <<
    Ele("classpathentry",
        << Att("kind", <<"con">>), Att("path", <<JreContainer>> \o javaVersion) >>,
        << Ele("attributes", <<>>,
               << Ele("attribute",
                      << Att("name", <<"module">>), Att("value", <<"true">>) >>,
                      <<>>) >>) >>),
    Ele("classpathentry", << Att("kind", <<"output">>), Att("path", <<"bin">>) >>, <<>>),
    Ele("classpathentry", << Att("kind", <<"src">>), Att("path", <<"src">>) >>, <<>>) >>)

classPathDoc(javaVersion) ==
  Ele("classpath", <<>>, <<
    Ele("classpathentry",
        << Att("kind", <<"con">>), Att("path", <<JreContainer>> \o javaVersion) >>,
        << Ele("attributes", <<>>,
               << Ele("attribute",
                      << Att("name", <<"module">>), Att("value", <<"true">>) >>,
                      <<>>) >>) >>),
    Ele("classpathentry", << Att("kind", <<"src">>), Att("path", <<"src">>) >>, <<>>),
    Ele("classpathentry", << Att("kind", <<"output">>), Att("path", <<"bin">>) >>, <<>>) >>)

createClassPathFile(javaVersion) == End(classPathDoc(javaVersion))

(***************************************************************************)
(* The filesystem: a map from the paths that exist to what is there.  A    *)
(* path is the sequence of its components; root + '/' + name is Join.      *)
(* A filesystem call either takes effect as a whole or throws and leaves   *)
(* the filesystem as it was.                                               *)
(***************************************************************************)
Roots == {"/tmp", "/gone"}

ExistingRoots == {"/tmp"}

Names == { <<"Test-Project">>, <<"R", "&", "D">> }

Versions == { <<"JavaSE-10">>, <<"1.8", "\"", "<", "&", ">">> }

DirEntry == [kind |-> "dir", data |-> ""]

FileEntry(data) == [kind |-> "file", data |-> data]

Join(root, projectName) == <<root, Str(projectName)>>

Child(fullPath, entry) == Append(fullPath, entry)

Parent(p) == SubSeq(p, 1, Len(p) - 1)

\* Variants of the existence test: one that sees directories only, one that
\* sees files only, one that looks at a path that is never there.
existsSyncDirOnly(f, p) == p \in DOMAIN f /\ f[p].kind = "dir"

existsSyncFileOnly(f, p) == p \in DOMAIN f /\ f[p].kind = "file"

existsSyncWrongPath(f, p) == Append(p, "") \in DOMAIN f

existsSync(f, p) == p \in DOMAIN f

\* mkdir is single-level: the parent must be a directory, the path free.
CanMkdir(f, p) ==
  /\ p \notin DOMAIN f
  /\ Parent(p) \in DOMAIN f
  /\ f[Parent(p)].kind = "dir"

mkdirSync(f, p) == (p :> DirEntry) @@ f

\* writeFile creates or replaces a file in an existing directory.
CanWrite(f, p) ==
  /\ Parent(p) \in DOMAIN f
  /\ f[Parent(p)].kind = "dir"
  /\ (p \in DOMAIN f => f[p].kind = "file")

writeFileSync(f, p, data) == (p :> FileEntry(data)) @@ f

\* What lies at and below p.
Subtree(f, p) ==
  [q \in {q \in DOMAIN f : Len(q) >= Len(p) /\ SubSeq(q, 1, Len(p)) = p} |-> f[q]]

\* The names of the entries directly inside directory p.
Entries(f, p) == {q[Len(q)] : q \in {q \in DOMAIN f : Len(q) = Len(p) + 1 /\ Parent(q) = p}}

(***************************************************************************)
(* The event loop: at most one piece of synchronous code runs at a time;   *)
(* another starts only when the running one awaits or ends.                *)
(***************************************************************************)
InvIds == 1..NumInvocations

CmdIds == 1..NumCommands

Idle == <<"idle", 0>>

RunInv(i) == <<"inv", i>>

RunCmd(c) == <<"cmd", c>>

NoStr == [some |-> FALSE, val |-> ""]

SomeStr(s) == [some |-> TRUE, val |-> s]

NoText == [some |-> FALSE, val |-> <<>>]

SomeText(t) == [some |-> TRUE, val |-> t]

NoWorkspace == [hasFolders |-> FALSE, folders |-> <<>>, rootPath |-> NoStr]

InvInit ==
  [pc |-> "idle", root |-> "", projectName |-> <<>>, javaVersion |-> <<>>,
   caller |-> 0, outcome |-> "none", returned |-> FALSE, check |-> "none",
   steps |-> <<>>, failedAt |-> "none", atStart |-> <<>>, atEnd |-> <<>>]

CmdInit ==
  [pc |-> "idle", workspace |-> NoWorkspace, root |-> NoStr, folder |-> NoText,
   projectName |-> NoText, javaVersion |-> NoText, outcome |-> "none", calls |-> 0]

fullPath(i) == Join(inv[i].root, inv[i].projectName)

AlreadyExistsMessage(projectName) ==
  Str(<<"A folder with the name ">> \o projectName \o <<" already exists.">>)

Message(who, text) == [who |-> who, text |-> text]

\* Control goes back to whoever called createProjectFolder: to the command
\* handler, which is still in its synchronous run, or to the event loop.
BackToCaller(i) == IF inv[i].caller = 0 THEN Idle ELSE RunCmd(inv[i].caller)

InitialFs ==
  { f \in [ {<<r>> : r \in ExistingRoots}
              \cup {Join(r, n) : r \in ExistingRoots, n \in Names}
            -> {DirEntry, FileEntry("old"), FileEntry("<absent>")} ] :
      \A r \in ExistingRoots : f[<<r>>] = DirEntry }

Prune(f) == [p \in {p \in DOMAIN f : f[p] # FileEntry("<absent>")} |-> f[p]]

Init ==
  /\ fs \in {Prune(f) : f \in InitialFs}
  /\ fs0 = fs
  /\ inv = [i \in InvIds |-> InvInit]
  /\ cmd = [c \in CmdIds |-> CmdInit]
  /\ running = Idle
  /\ shown = {}

(***************************************************************************)
(* createProjectFolder, one action per statement.  Its synchronous part    *)
(* runs inside the caller's run; a throw inside the async function rejects *)
(* its promise and is not thrown to the caller.                            *)
(***************************************************************************)
Enter(i, caller, root, projectName, javaVersion) ==
  inv' = [inv EXCEPT ![i] =
            [InvInit EXCEPT !.pc = "existsSync", !.root = root,
                            !.projectName = projectName, !.javaVersion = javaVersion,
                            !.caller = caller, !.outcome = "pending",
                            !.atStart = Subtree(fs, Join(root, projectName))]]

\* A call from top-level code, as the test suite makes it.
Call(i, root, projectName, javaVersion) ==
  /\ running = Idle
  /\ inv[i].pc = "idle"
  /\ \A k \in InvIds : k < i => inv[k].pc # "idle"
  /\ Enter(i, 0, root, projectName, javaVersion)
  /\ running' = RunInv(i)
  /\ UNCHANGED <<fs, fs0, cmd, shown>>

\* A variant of the statement order that returns after src is created.
NextPcWithoutBin(step) ==
  CASE step = "mkdirTarget" -> "writeProject"
    [] step = "writeProject" -> "writeClasspath"
    [] step = "writeClasspath" -> "mkdirSrc"
    [] step = "mkdirSrc" -> "return"
    [] step = "mkdirBin" -> "return"

\* A variant of the statement order that writes .classpath before .project.
NextPcClasspathFirst(step) ==
  CASE step = "mkdirTarget" -> "writeClasspath"
    [] step = "writeClasspath" -> "writeProject"
    [] step = "writeProject" -> "mkdirSrc"
    [] step = "mkdirSrc" -> "mkdirBin"
    [] step = "mkdirBin" -> "return"

\* The statement that follows each creation step.
NextPc(step) ==
  CASE step = "mkdirTarget" -> "writeProject"
    [] step = "writeProject" -> "writeClasspath"
    [] step = "writeClasspath" -> "mkdirSrc"
    [] step = "mkdirSrc" -> "mkdirBin"
    [] step = "mkdirBin" -> "return"

\* if (fs.existsSync(fullPath)) { await showErrorMessage(...); return; }
ExistsCheck(i) ==
  /\ running = RunInv(i)
  /\ inv[i].pc = "existsSync"
  /\ IF existsSync(fs, fullPath(i))
       THEN /\ shown' = shown \cup
                 {Message(RunInv(i), AlreadyExistsMessage(inv[i].projectName))}
            /\ inv' = [inv EXCEPT ![i].pc = "awaitError", ![i].check = "exists",
                                  ![i].returned = TRUE]
            /\ running' = BackToCaller(i)
       ELSE /\ inv' = [inv EXCEPT ![i].pc = "mkdirTarget", ![i].check = "absent"]
            /\ UNCHANGED <<running, shown>>
  /\ UNCHANGED <<fs, fs0, cmd>>

\* The error message is dismissed; the function returns.
ErrorDismissed(i) ==
  /\ running = Idle
  /\ inv[i].pc = "awaitError"
  /\ inv' = [inv EXCEPT ![i].pc = "done", ![i].outcome = "fulfilled",
                        ![i].atEnd = Subtree(fs, fullPath(i))]
  /\ UNCHANGED <<fs, fs0, cmd, running, shown>>

\* A creation step took effect.
StepDone(i, step, newFs) ==
  /\ fs' = newFs
  /\ IF NextPc(step) = "return"
       THEN /\ inv' = [inv EXCEPT ![i].pc = "done", ![i].outcome = "fulfilled",
                                  ![i].returned = TRUE,
                                  ![i].steps = Append(@, step),
                                  ![i].atEnd = Subtree(newFs, fullPath(i))]
            /\ running' = BackToCaller(i)
       ELSE /\ inv' = [inv EXCEPT ![i].pc = NextPc(step),
                                  ![i].steps = Append(@, step)]
            /\ UNCHANGED running

\* A variant of the failure path that removes the target and what is in it.
StepThrewWithRollback(i, step) ==
  LET kept == [q \in DOMAIN fs \ DOMAIN Subtree(fs, fullPath(i)) |-> fs[q]]
  IN  /\ inv' = [inv EXCEPT ![i].pc = "done", ![i].outcome = "rejected",
                            ![i].returned = TRUE, ![i].failedAt = step,
                            ![i].atEnd = Subtree(kept, fullPath(i))]
      /\ running' = BackToCaller(i)
      /\ fs' = kept

\* A creation step threw: the promise is rejected, nothing is undone.
StepThrew(i, step) ==
  /\ inv' = [inv EXCEPT ![i].pc = "done", ![i].outcome = "rejected",
                        ![i].returned = TRUE, ![i].failedAt = step,
                        ![i].atEnd = Subtree(fs, fullPath(i))]
  /\ running' = BackToCaller(i)
  /\ UNCHANGED fs

\* fs.mkdirSync(fullPath)
MkdirTarget(i) ==
  /\ running = RunInv(i)
  /\ inv[i].pc = "mkdirTarget"
  /\ \/ /\ CanMkdir(fs, fullPath(i))
        /\ StepDone(i, "mkdirTarget", mkdirSync(fs, fullPath(i)))
     \/ StepThrew(i, "mkdirTarget")
  /\ UNCHANGED <<fs0, cmd, shown>>

\* fs.writeFileSync(fullPath + '/.project', createProjectFile(projectName))
WriteProject(i) ==
  /\ running = RunInv(i)
  /\ inv[i].pc = "writeProject"
  /\ \/ /\ CanWrite(fs, Child(fullPath(i), ".project"))
        /\ StepDone(i, "writeProject",
                    writeFileSync(fs, Child(fullPath(i), ".project"),
                                  createProjectFile(inv[i].projectName)))
     \/ StepThrew(i, "writeProject")
  /\ UNCHANGED <<fs0, cmd, shown>>

\* fs.writeFileSync(fullPath + '/.classpath', createClassPathFile(javaVersion))
WriteClasspath(i) ==
  /\ running = RunInv(i)
  /\ inv[i].pc = "writeClasspath"
  /\ \/ /\ CanWrite(fs, Child(fullPath(i), ".classpath"))
        /\ StepDone(i, "writeClasspath",
                    writeFileSync(fs, Child(fullPath(i), ".classpath"),
                                  createClassPathFile(inv[i].javaVersion)))
     \/ StepThrew(i, "writeClasspath")
  /\ UNCHANGED <<fs0, cmd, shown>>

\* fs.mkdirSync(fullPath + '/src')
MkdirSrc(i) ==
  /\ running = RunInv(i)
  /\ inv[i].pc = "mkdirSrc"
  /\ \/ /\ CanMkdir(fs, Child(fullPath(i), "src"))
        /\ StepDone(i, "mkdirSrc", mkdirSync(fs, Child(fullPath(i), "src")))
     \/ StepThrew(i, "mkdirSrc")
  /\ UNCHANGED <<fs0, cmd, shown>>

\* fs.mkdirSync(fullPath + '/bin')
MkdirBin(i) ==
  /\ running = RunInv(i)
  /\ inv[i].pc = "mkdirBin"
  /\ \/ /\ CanMkdir(fs, Child(fullPath(i), "bin"))
        /\ StepDone(i, "mkdirBin", mkdirSync(fs, Child(fullPath(i), "bin")))
     \/ StepThrew(i, "mkdirBin")
  /\ UNCHANGED <<fs0, cmd, shown>>

Provision(i) ==
  \/ ExistsCheck(i)
  \/ MkdirTarget(i)
  \/ WriteProject(i)
  \/ WriteClasspath(i)
  \/ MkdirSrc(i)
  \/ MkdirBin(i)
  \/ ErrorDismissed(i)

Next ==
  \/ \E i \in InvIds, r \in Roots, n \in Names, v \in Versions : Call(i, r, n, v)
  \/ \E i \in InvIds : Provision(i)

Spec == Init /\ [][Next]_vars

(***************************************************************************)
(* The command handler.  vscode.workspace is the handler's input: the open *)
(* workspace folders, or the legacy rootPath.  Each action is one          *)
(* synchronous run of the handler, from one await to the next.             *)
(***************************************************************************)
WorkspaceFolder(dir, base) == [fsPath |-> dir \o base, basename |-> base]

Tmp == WorkspaceFolder("/", "tmp")

Gone == WorkspaceFolder("/", "gone")

Workspace(hasFolders, folders, rootPath) ==
  [hasFolders |-> hasFolders, folders |-> folders, rootPath |-> rootPath]

Workspaces ==
  { Workspace(FALSE, <<>>, NoStr),
    Workspace(FALSE, <<>>, SomeStr("/tmp")),
    Workspace(TRUE, <<>>, NoStr),
    Workspace(TRUE, <<Tmp>>, SomeStr("/tmp")),
    Workspace(TRUE, <<Gone>>, SomeStr("/gone")),
    Workspace(TRUE, <<Tmp, Gone>>, SomeStr("/tmp")) }

Shape(w) ==
  IF w.hasFolders
    THEN (IF Len(w.folders) = 0 THEN "empty"
          ELSE IF Len(w.folders) = 1 THEN "one" ELSE "several")
    ELSE (IF w.rootPath.some THEN "rootPath" ELSE "none")

FolderAnswers == {NoText, SomeText(<<>>), SomeText(<<"tmp">>), SomeText(<<"src">>)}

NameAnswers == {NoText, SomeText(<<>>)} \cup {SomeText(n) : n \in Names}

VersionAnswers == {NoText, SomeText(<<>>)} \cup {SomeText(v) : v \in Versions}

NoFoldersMessage ==
  "You don't have any folders in your workspace. Please add a folder to your workspace and try again."

NotFoundMessage(baseName) ==
  Str(<<"Could not find the folder ">> \o baseName \o <<" in your workspace. Please try again.">>)

InvalidVersionMessage == "Invalid Java Version."

\* The first folder whose basename is baseName, or undefined.
findFolderInWorkspace(baseName, folders) ==
  LET hits == {k \in 1..Len(folders) : folders[k].basename = Str(baseName)}
  IN  IF hits = {} THEN NoStr
      ELSE SomeStr(folders[CHOOSE k \in hits : \A m \in hits : k <= m].fsPath)

\* if (javaVersion === undefined || javaVersion === "")
InvalidVersion(answer) == ~answer.some \/ Str(answer.val) = ""

\* A variant of the name test that only asks whether a name was given.
TruthyWhenDefined(answer) == answer.some

\* if (projectName)
Truthy(answer) == answer.some /\ Str(answer.val) # ""

CmdEnd(c, outcome) ==
  cmd' = [cmd EXCEPT ![c].pc = "done", ![c].outcome = outcome]

\* The handler up to its first await.
CmdStart(c, w) ==
  /\ running = Idle
  /\ cmd[c].pc = "idle"
  /\ \A k \in CmdIds : k < c => cmd[k].pc # "idle"
  /\ IF w.hasFolders
       THEN IF Len(w.folders) > 1
              THEN /\ cmd' = [cmd EXCEPT ![c].pc = "promptFolder", ![c].outcome = "pending",
                                         ![c].workspace = w]
                   /\ UNCHANGED shown
            ELSE IF Len(w.folders) = 0
              THEN /\ cmd' = [cmd EXCEPT ![c].pc = "done", ![c].outcome = "rejected",
                                         ![c].workspace = w]
                   /\ UNCHANGED shown
            ELSE /\ cmd' = [cmd EXCEPT ![c].pc = "promptName", ![c].outcome = "pending",
                                       ![c].workspace = w,
                                       ![c].root = SomeStr(w.folders[1].fsPath)]
                 /\ UNCHANGED shown
     ELSE IF w.rootPath.some /\ w.rootPath.val # ""
       THEN /\ cmd' = [cmd EXCEPT ![c].pc = "promptName", ![c].outcome = "pending",
                                  ![c].workspace = w, ![c].root = w.rootPath]
            /\ UNCHANGED shown
     ELSE /\ cmd' = [cmd EXCEPT ![c].pc = "awaitNoFolders", ![c].outcome = "pending",
                                ![c].workspace = w]
          /\ shown' = shown \cup {Message(RunCmd(c), NoFoldersMessage)}
  /\ UNCHANGED <<fs, fs0, inv, running>>

\* promptForFolder answered (or cancelled); getWorkspaceRoot(folders, true, baseName).
CmdFolderAnswered(c, answer) ==
  /\ running = Idle
  /\ cmd[c].pc = "promptFolder"
  /\ IF ~answer.some \/ Str(answer.val) = ""
       THEN /\ cmd' = [cmd EXCEPT ![c].pc = "done", ![c].outcome = "fulfilled",
                                  ![c].folder = answer]
            /\ UNCHANGED shown
     ELSE IF findFolderInWorkspace(answer.val, cmd[c].workspace.folders).some
       THEN /\ cmd' = [cmd EXCEPT ![c].pc = "promptName", ![c].folder = answer,
                                  ![c].root = findFolderInWorkspace(answer.val, cmd[c].workspace.folders)]
            /\ UNCHANGED shown
     ELSE /\ cmd' = [cmd EXCEPT ![c].pc = "awaitNotFound", ![c].folder = answer]
          /\ shown' = shown \cup {Message(RunCmd(c), NotFoundMessage(answer.val))}
  /\ UNCHANGED <<fs, fs0, inv, running>>

\* An error message of the handler is dismissed; the handler returns.
CmdErrorDismissed(c) ==
  /\ running = Idle
  /\ cmd[c].pc \in {"awaitNoFolders", "awaitNotFound", "awaitInvalid"}
  /\ CmdEnd(c, "fulfilled")
  /\ UNCHANGED <<fs, fs0, inv, running, shown>>

\* promptForProjectName answered (or cancelled).
CmdNameAnswered(c, answer) ==
  /\ running = Idle
  /\ cmd[c].pc = "promptName"
  /\ cmd' = [cmd EXCEPT ![c].pc = "promptVersion", ![c].projectName = answer]
  /\ UNCHANGED <<fs, fs0, inv, running, shown>>

\* promptForJavaVersion answered (or cancelled); validation; the call of
\* createProjectFolder, whose promise the handler does not await.
CmdVersionAnswered(c, answer) ==
  /\ running = Idle
  /\ cmd[c].pc = "promptVersion"
  /\ IF InvalidVersion(answer)
       THEN /\ cmd' = [cmd EXCEPT ![c].pc = "awaitInvalid", ![c].javaVersion = answer]
            /\ shown' = shown \cup {Message(RunCmd(c), InvalidVersionMessage)}
            /\ UNCHANGED <<inv, running>>
     ELSE IF Truthy(cmd[c].projectName)
       THEN /\ cmd' = [cmd EXCEPT ![c].pc = "called", ![c].javaVersion = answer,
                                  ![c].calls = @ + 1]
            /\ Enter(c, c, cmd[c].root.val, cmd[c].projectName.val, answer.val)
            /\ running' = RunInv(c)
            /\ UNCHANGED shown
     ELSE /\ cmd' = [cmd EXCEPT ![c].pc = "done", ![c].outcome = "fulfilled",
                                ![c].javaVersion = answer]
          /\ UNCHANGED <<inv, running, shown>>
  /\ UNCHANGED <<fs, fs0>>

\* createProjectFolder has returned its promise; the handler returns.
CmdReturn(c) ==
  /\ running = RunCmd(c)
  /\ cmd[c].pc = "called"
  /\ CmdEnd(c, "fulfilled")
  /\ running' = Idle
  /\ UNCHANGED <<fs, fs0, inv, shown>>

NextCommand ==
  \/ \E c \in CmdIds, w \in Workspaces : CmdStart(c, w)
  \/ \E c \in CmdIds, a \in FolderAnswers : CmdFolderAnswered(c, a)
  \/ \E c \in CmdIds, a \in NameAnswers : CmdNameAnswered(c, a)
  \/ \E c \in CmdIds, a \in VersionAnswers : CmdVersionAnswered(c, a)
  \/ \E c \in CmdIds : CmdErrorDismissed(c)
  \/ \E c \in CmdIds : CmdReturn(c)
  \/ \E i \in InvIds : Provision(i)

SpecCommand == Init /\ [][NextCommand]_vars

(***************************************************************************)
(* Vocabulary of the properties.                                           *)
(***************************************************************************)
StepOrder == <<"mkdirTarget", "writeProject", "writeClasspath", "mkdirSrc", "mkdirBin">>

Layout == {".project", ".classpath", "src", "bin"}

IsPrefix(s, t) == Len(s) <= Len(t) /\ s = SubSeq(t, 1, Len(s))

Started(i) == inv[i].pc # "idle"

Checked(i) == inv[i].check # "none"

ExistedAtStart(i) == fullPath(i) \in DOMAIN inv[i].atStart

SameTarget(i, j) ==
  /\ inv[i].root = inv[j].root
  /\ Str(inv[i].projectName) = Str(inv[j].projectName)

SameArguments(i, j) ==
  /\ inv[i].root = inv[j].root
  /\ inv[i].projectName = inv[j].projectName
  /\ inv[i].javaVersion = inv[j].javaVersion

Succeeded(i) ==
  inv[i].pc = "done" /\ inv[i].steps = StepOrder /\ inv[i].outcome = "fulfilled"

AlreadyExistsShown(i) ==
  Message(RunInv(i), AlreadyExistsMessage(inv[i].projectName)) \in shown

\* The text of section 4.1 of the specification, with the name put in.
ExpectedProjectText(name) ==
  "<?xml version=\"1.0\" encoding=\"UTF-8\"?>\n"
  \o "<projectDescription>\n"
  \o "  <name>" \o name \o "</name>\n"
  \o "  <comment/>\n"
  \o "  <projects/>\n"
  \o "  <buildSpec>\n"
  \o "    <buildCommand>\n"
  \o "      <name>org.eclipse.jdt.core.javabuilder</name>\n"
  \o "      <arguments/>\n"
  \o "    </buildCommand>\n"
  \o "  </buildSpec>\n"
  \o "  <natures>\n"
  \o "    <nature>org.eclipse.jdt.core.javanature</nature>\n"
  \o "  </natures>\n"
  \o "</projectDescription>"

ExpectedClasspathText(version) ==
  "<?xml version=\"1.0\" encoding=\"UTF-8\"?>\n"
  \o "<classpath>\n"
  \o "  <classpathentry kind=\"con\" path=\"org.eclipse.jdt.launching.JRE_CONTAINER/"
  \o "org.eclipse.jdt.internal.debug.ui.launcher.StandardVMType/" \o version \o "\">\n"
  \o "    <attributes>\n"
  \o "      <attribute name=\"module\" value=\"true\"/>\n"
  \o "    </attributes>\n"
  \o "  </classpathentry>\n"
  \o "  <classpathentry kind=\"src\" path=\"src\"/>\n"
  \o "  <classpathentry kind=\"output\" path=\"bin\"/>\n"
  \o "</classpath>"

\* What the first k creation steps of invocation i leave at and below its target.
CreatedBy(i, k) ==
  LET p == fullPath(i)
      e1 == IF k >= 1 THEN (p :> DirEntry) ELSE <<>>
      e2 == IF k >= 2
              THEN (Child(p, ".project") :> FileEntry(createProjectFile(inv[i].projectName)))
              ELSE <<>>
      e3 == IF k >= 3
              THEN (Child(p, ".classpath") :> FileEntry(createClassPathFile(inv[i].javaVersion)))
              ELSE <<>>
      e4 == IF k >= 4 THEN (Child(p, "src") :> DirEntry) ELSE <<>>
      e5 == IF k >= 5 THEN (Child(p, "bin") :> DirEntry) ELSE <<>>
  IN  e1 @@ e2 @@ e3 @@ e4 @@ e5

SameMap(f, g) == DOMAIN f = DOMAIN g /\ \A q \in DOMAIN f : f[q] = g[q]

(***************************************************************************)
(* C1.  As claimed: a call that finds an entry at root/projectName         *)
(* creates nothing and ends with an error outcome for its caller, one that *)
(* differs from the outcome of a successful provisioning.                  *)
(***************************************************************************)
C1_SignalsErrorToCaller ==
  \A i \in InvIds :
    (inv[i].pc = "done" /\ ExistedAtStart(i)) =>
      /\ inv[i].steps = <<>>
      /\ inv[i].outcome # "fulfilled"

\* C1 as amended: a call that finds an entry at root/projectName takes the
\* already-exists branch, creates and modifies nothing, shows the error
\* message naming projectName, and once that is dismissed its promise is
\* fulfilled, as the promise of a successful provisioning is.
C1_AlreadyExistsCreatesNothing ==
  \A i \in InvIds :
    (Started(i) /\ ExistedAtStart(i) /\ inv[i].pc # "existsSync") =>
      /\ inv[i].check = "exists"
      /\ inv[i].steps = <<>>
      /\ inv[i].failedAt = "none"
      /\ inv[i].returned
      /\ AlreadyExistsShown(i)
      /\ SameMap(Subtree(fs, fullPath(i)), inv[i].atStart)
      /\ inv[i].pc \in {"awaitError", "done"}
      /\ inv[i].pc = "done" =>
           (inv[i].outcome = "fulfilled" /\ SameMap(inv[i].atEnd, inv[i].atStart))

C1_Witness ==
  \E i \in InvIds :
    /\ inv[i].pc = "done"
    /\ ExistedAtStart(i)
    /\ inv[i].check = "exists"
    /\ fs[fullPath(i)].kind = "file"

(***************************************************************************)
(* C2.  When the call has returned to its caller, root existing, the       *)
(* target absent at the start and no filesystem call having failed, the    *)
(* target is a directory holding exactly .project, .classpath, src and     *)
(* bin, the last two being empty directories.                              *)
(***************************************************************************)
C2_LayoutCompleteOnReturn ==
  \A i \in InvIds :
    (/\ inv[i].returned
     /\ <<inv[i].root>> \in DOMAIN fs0
     /\ ~ExistedAtStart(i)
     /\ inv[i].failedAt = "none") =>
      LET p == fullPath(i)
      IN  /\ p \in DOMAIN fs
          /\ fs[p].kind = "dir"
          /\ Entries(fs, p) = Layout
          /\ fs[Child(p, ".project")].kind = "file"
          /\ fs[Child(p, ".classpath")].kind = "file"
          /\ fs[Child(p, "src")].kind = "dir"
          /\ fs[Child(p, "bin")].kind = "dir"
          /\ Entries(fs, Child(p, "src")) = {}
          /\ Entries(fs, Child(p, "bin")) = {}

C2_Witness ==
  \E i \in InvIds :
    /\ inv[i].returned
    /\ inv[i].check = "absent"
    /\ inv[i].failedAt = "none"
    /\ inv[i].caller = 0
    /\ Entries(fs, fullPath(i)) = Layout

(***************************************************************************)
(* C3.  As claimed: of two calls in sequence with the same arguments, the  *)
(* first succeeding, the second fails (its outcome is an error) and leaves *)
(* the filesystem as the first left it.                                    *)
(***************************************************************************)
C3_SecondCallFails ==
  \A i, j \in InvIds :
    (/\ i # j
     /\ SameArguments(i, j)
     /\ Succeeded(i)
     /\ inv[j].pc = "done"
     /\ SameMap(inv[j].atStart, inv[i].atEnd)) =>
      /\ inv[j].outcome = "rejected"
      /\ SameMap(inv[j].atEnd, inv[i].atEnd)

\* C3 as amended: the second call takes the already-exists branch, showing
\* the error message and then completing normally (its promise is fulfilled,
\* not rejected), and the filesystem stays as the first call left it.
C3_SecondCallChangesNothing ==
  \A i, j \in InvIds :
    (/\ i # j
     /\ SameArguments(i, j)
     /\ Succeeded(i)
     /\ Started(j)
     /\ inv[j].pc # "existsSync"
     /\ SameMap(inv[j].atStart, inv[i].atEnd)) =>
      /\ inv[j].check = "exists"
      /\ inv[j].steps = <<>>
      /\ AlreadyExistsShown(j)
      /\ SameMap(Subtree(fs, fullPath(j)), inv[i].atEnd)
      /\ SameMap(inv[i].atEnd, CreatedBy(i, 5))
      /\ inv[j].pc = "done" =>
           (inv[j].outcome = "fulfilled" /\ SameMap(inv[j].atEnd, inv[i].atEnd))

C3_Witness ==
  \E i, j \in InvIds :
    /\ i # j
    /\ SameArguments(i, j)
    /\ Succeeded(i)
    /\ inv[j].pc = "done"
    /\ inv[j].check = "exists"
    /\ SameMap(inv[j].atStart, inv[i].atEnd)

(***************************************************************************)
(* C4.  The steps of a call happen in the order existence check, mkdir     *)
(* target, write .project, write .classpath, mkdir src, mkdir bin, one at  *)
(* a time; in every state an entry of a later step exists only if the      *)
(* entries of all earlier steps exist.                                     *)
(***************************************************************************)
C4_StepsInOrder ==
  /\ \A i \in InvIds :
       /\ IsPrefix(inv[i].steps, StepOrder)
       /\ inv[i].steps # <<>> => inv[i].check = "absent"
       /\ inv[i].pc \in {"mkdirTarget", "writeProject", "writeClasspath", "mkdirSrc", "mkdirBin"} =>
            /\ inv[i].check = "absent"
            /\ inv[i].pc = StepOrder[Len(inv[i].steps) + 1]
            /\ running = RunInv(i)
            /\ SameMap(Subtree(fs, fullPath(i)), CreatedBy(i, Len(inv[i].steps)))
  /\ \A r \in Roots, n \in Names :
       LET p == Join(r, n)
           has(e) == Child(p, e) \in DOMAIN fs
       IN  /\ has(".project") => (p \in DOMAIN fs /\ fs[p].kind = "dir")
           /\ has(".classpath") => has(".project")
           /\ has("src") => has(".classpath")
           /\ has("bin") => has("src")

C4_Witness ==
  \E i \in InvIds :
    /\ inv[i].pc = "mkdirSrc"
    /\ Entries(fs, fullPath(i)) = {".project", ".classpath"}

(***************************************************************************)
(* C5.  A creation step that fails ends the call with its promise rejected *)
(* and handed to the caller; no later step runs and nothing is rolled      *)
(* back: the target holds exactly what the completed steps created.        *)
(***************************************************************************)
C5_FailureStopsWithoutRollback ==
  \A i \in InvIds :
    inv[i].failedAt # "none" =>
      /\ inv[i].pc = "done"
      /\ inv[i].outcome = "rejected"
      /\ inv[i].returned
      /\ Len(inv[i].steps) < Len(StepOrder)
      /\ IsPrefix(inv[i].steps, StepOrder)
      /\ inv[i].failedAt = StepOrder[Len(inv[i].steps) + 1]
      /\ SameMap(inv[i].atEnd, CreatedBy(i, Len(inv[i].steps)))

C5_Witness ==
  \E i \in InvIds :
    /\ inv[i].failedAt = "mkdirSrc"
    /\ <<inv[i].root>> \in DOMAIN fs0
    /\ Entries(fs, fullPath(i)) = {".project", ".classpath"}

(***************************************************************************)
(* C6.  As claimed: when createProjectFolder, started by the command       *)
(* handler, fails on the filesystem, the handler's own outcome is a        *)
(* failure and an error has been shown by the time the handler finishes.   *)
(***************************************************************************)
C6_HandlerObservesFailure ==
  \A c \in CmdIds :
    (cmd[c].pc = "done" /\ cmd[c].calls > 0 /\ inv[c].outcome = "rejected") =>
      /\ cmd[c].outcome = "rejected"
      /\ \E m \in shown : m.who \in {RunInv(c), RunCmd(c)}

(***************************************************************************)
(* C7.  The classpath document has root classpath with three               *)
(* classpathentry children, kind con, src, output in this order; the con   *)
(* entry's path is the JRE container prefix followed by javaVersion and it *)
(* has the one nested attribute module=true; the paths of src and output   *)
(* are "src" and "bin"; the text written is the block of section 4.1, and  *)
(* for JavaSE-10 it is that block literally, with no trailing newline.     *)
(***************************************************************************)
C7_ClasspathDescriptor ==
  \A i \in InvIds :
    Len(inv[i].steps) >= 3 =>
      LET v == inv[i].javaVersion
          d == classPathDoc(v)
          written == fs[Child(fullPath(i), ".classpath")].data
      IN  /\ d.tag = "classpath"
          /\ Len(d.kids) = 3
          /\ \A k \in 1..3 : d.kids[k].tag = "classpathentry" /\ Len(d.kids[k].atts) = 2
          /\ [k \in 1..3 |-> d.kids[k].atts[1]] =
               << Att("kind", <<"con">>), Att("kind", <<"src">>), Att("kind", <<"output">>) >>
          /\ d.kids[1].atts[2].name = "path"
          /\ Str(d.kids[1].atts[2].value) = JreContainer \o Str(v)
          /\ Len(d.kids[1].kids) = 1
          /\ d.kids[1].kids[1].tag = "attributes"
          /\ d.kids[1].kids[1].kids =
               << Ele("attribute", <<Att("name", <<"module">>), Att("value", <<"true">>)>>, <<>>) >>
          /\ d.kids[2].atts[2] = Att("path", <<"src">>)
          /\ d.kids[3].atts[2] = Att("path", <<"bin">>)
          /\ d.kids[2].kids = <<>> /\ d.kids[3].kids = <<>>
          /\ written = ExpectedClasspathText(Str(AttEscape(v)))
          /\ v = <<"JavaSE-10">> => written = ExpectedClasspathText("JavaSE-10")

C7_Witness ==
  /\ \E i \in InvIds :
       /\ Len(inv[i].steps) >= 3
       /\ inv[i].javaVersion = <<"JavaSE-10">>
  /\ \E i \in InvIds :
       /\ Len(inv[i].steps) >= 3
       /\ ~NoReserved(inv[i].javaVersion)

C9_GuardedCall ==
  /\ \A c \in CmdIds :
       /\ cmd[c].calls <= 1
       /\ cmd[c].calls = 1 =>
            /\ cmd[c].root.some
            /\ cmd[c].projectName.some /\ Str(cmd[c].projectName.val) # ""
            /\ cmd[c].javaVersion.some /\ Str(cmd[c].javaVersion.val) # ""
            /\ inv[c].caller = c
            /\ inv[c].root = cmd[c].root.val
            /\ inv[c].projectName = cmd[c].projectName.val
            /\ inv[c].javaVersion = cmd[c].javaVersion.val
       /\ cmd[c].calls = 0 => inv[c].pc = "idle"
       /\ Message(RunCmd(c), InvalidVersionMessage) \in shown =>
            (~cmd[c].javaVersion.some \/ Str(cmd[c].javaVersion.val) = "")
       /\ (cmd[c].pc = "done" /\ cmd[c].workspace.hasFolders
             /\ Len(cmd[c].workspace.folders) = 0) => cmd[c].calls = 0
  /\ (\A c \in CmdIds : cmd[c].calls = 0) => fs = fs0

C9_Witness ==
  \E c \in CmdIds :
    /\ cmd[c].pc = "done"
    /\ cmd[c].calls = 1
    /\ Shape(cmd[c].workspace) = "several"
    /\ Succeeded(c)

(***************************************************************************)
(* C10.  As claimed: of the invocations on one root/projectName no two     *)
(* have both passed the existence check, and once all have ended (the      *)
(* target absent at first) exactly one has created the layout while every  *)
(* other took the already-exists branch and created nothing.               *)
(***************************************************************************)
C10_NeverTwoPastCheck ==
  /\ \A i, j \in InvIds :
       (i # j /\ Started(i) /\ Started(j) /\ SameTarget(i, j)) =>
         ~(inv[i].check = "absent" /\ inv[j].check = "absent")
  /\ \A r \in Roots, n \in Names :
       LET same == {i \in InvIds : Started(i) /\ fullPath(i) = Join(r, n)}
       IN  (/\ same # {}
            /\ Join(r, n) \notin DOMAIN fs0
            /\ \A i \in same : inv[i].pc = "done") =>
             /\ Cardinality({i \in same : inv[i].steps = StepOrder}) = 1
             /\ \A i \in same :
                  inv[i].steps # StepOrder => (inv[i].check = "exists" /\ inv[i].steps = <<>>)

\* C10 as amended: invocations on the same root/projectName interleave only
\* at awaits, the check and the creation steps of one invocation running
\* without yielding: no two invocations are between check and creation at
\* once, two can both have passed the check only if the earlier one failed to
\* create the target, at most one creates the target, every invocation
\* started once the target exists takes the already-exists branch and creates
\* nothing, and with the target absent at first and no filesystem call
\* failing exactly one invocation creates the layout.
InCreation(i) ==
  inv[i].pc \in {"mkdirTarget", "writeProject", "writeClasspath", "mkdirSrc", "mkdirBin"}

C10_OneCreator ==
  /\ \A i, j \in InvIds :
       (i # j /\ Started(i) /\ Started(j) /\ SameTarget(i, j)) =>
         /\ ~(InCreation(i) /\ InCreation(j))
         /\ InCreation(i) => inv[j].pc \in {"awaitError", "done"}
         /\ (inv[i].check = "absent" /\ inv[j].check = "absent") =>
              (inv[i].failedAt = "mkdirTarget" \/ inv[j].failedAt = "mkdirTarget")
         /\ ~(inv[i].steps # <<>> /\ inv[j].steps # <<>>)
         /\ (ExistedAtStart(j) /\ Checked(j)) =>
              (inv[j].check = "exists" /\ inv[j].steps = <<>>)
  /\ \A r \in Roots, n \in Names :
       LET same == {i \in InvIds : Started(i) /\ fullPath(i) = Join(r, n)}
       IN  (/\ same # {}
            /\ <<r>> \in DOMAIN fs0
            /\ Join(r, n) \notin DOMAIN fs0
            /\ \A i \in same : inv[i].pc = "done" /\ inv[i].failedAt = "none") =>
             /\ Cardinality({i \in same : inv[i].steps = StepOrder}) = 1
             /\ \A i \in same :
                  inv[i].steps # StepOrder => (inv[i].check = "exists" /\ inv[i].steps = <<>>)

C10_Witness ==
  \E i, j \in InvIds :
    /\ i # j
    /\ SameTarget(i, j)
    /\ inv[i].javaVersion # inv[j].javaVersion
    /\ fullPath(i) \notin DOMAIN fs0
    /\ Succeeded(i)
    /\ inv[j].pc = "done"
    /\ inv[j].check = "exists"

====
